---- MODULE Spec2Model ----
(***************************************************************************)
(* Model of the dynamic CRUD service of src/src/main.rs: a registry of     *)
(* JSON Schemas by model name (AppState.schemas), a store of JSON records  *)
(* by model name and generated id (AppState.data), and the five request    *)
(* handlers upload_schema, create_item, get_item, update_item and          *)
(* delete_item.  Each handler is one action; the response it builds is     *)
(* kept in the variable resp together with the request it answers.         *)
(***************************************************************************)
EXTENDS Integers, Sequences, FiniteSets, TLC

(***************************************************************************)
(* Bounds.                                                                 *)
(***************************************************************************)
\* Number of distinct ids Uuid::new_v4 can hand out in one run of the model.
MaxIds == 2

\* The id strings a client can put in a path: every id the generator can
\* produce (clients may also guess one that was never issued).
Ids == 1..MaxIds

\* The path value of a request that carries no id.
NoId == 0

\* The model names clients use in paths and schema uploads.
ModelNames == {"Task", "ValidationModel"}

(***************************************************************************)
(* HTTP status codes of the responses.                                     *)
(***************************************************************************)
StatusOk == 200
StatusCreated == 201
StatusBadRequest == 400
StatusNotFound == 404

(***************************************************************************)
(* serde_json::Value.  A JSON value is a record of its type, its scalar    *)
(* text and, for an object, its members.                                   *)
(***************************************************************************)
NoFields == [p \in {} |-> 0]

JString(s) == [type |-> "string", val |-> s, fields |-> NoFields]

JBool(b) == [type |-> "boolean", val |-> b, fields |-> NoFields]

JInteger(n) == [type |-> "integer", val |-> n, fields |-> NoFields]

JNull == [type |-> "null", val |-> "", fields |-> NoFields]

JObject(f) == [type |-> "object", val |-> "", fields |-> f]

\* Stands in a request or response for a JSON body that is not there.
NoValue == [type |-> "absent", val |-> "", fields |-> NoFields]

\* The member names the payloads and schemas of the model use, in the order
\* in which validation reports them.
PropOrder == <<"title", "completed">>

Props == {PropOrder[i] : i \in 1..Len(PropOrder)}

\* Request bodies of create_item and update_item: the item of
\* tests::test_crud_flow, one without `completed`, one whose title is a
\* number and that has no `completed`, and the JSON value null.
LearnRust == JObject([p \in Props |->
                 IF p = "title" THEN JString("Learn Rust") ELSE JBool("false")])

JaneDoe == JObject([p \in {"title"} |-> JString("Jane Doe")])

BadTitle == JObject([p \in {"title"} |-> JInteger("1")])

Payloads == {LearnRust, JaneDoe, BadTitle, JNull}

(***************************************************************************)
(* Schema documents (the `schema` member of SchemaUpload): the keywords    *)
(* type, properties (member name -> type name) and required.               *)
(***************************************************************************)
NoProperties == [p \in {} |-> ""]

\* The schema of tests::test_crud_flow.
TaskSchema == [type |-> "object",
               properties |-> [p \in Props |->
                   IF p = "title" THEN "string" ELSE "boolean"],
               required |-> Props]

\* Constrains the title only and requires nothing.
LooseSchema == [type |-> "object",
                properties |-> [p \in {"title"} |-> "string"],
                required |-> {}]

\* Not a schema of the dialect: its type keyword names no JSON type.
BrokenSchema == [type |-> "objekt",
                 properties |-> NoProperties,
                 required |-> {}]

SchemaDocs == {TaskSchema, LooseSchema, BrokenSchema}

\* Request bodies of upload_schema: "Task" is given every document, replaced
\* at will; "ValidationModel" is only ever given the strict one.
Uploads == ({"Task"} \X SchemaDocs) \cup {<<"ValidationModel", TaskSchema>>}

JsonTypes == {"object", "string", "boolean", "integer", "null"}

(***************************************************************************)
(* jsonschema: JSONSchema::options().compile and JSONSchema::validate.     *)
(***************************************************************************)
\* compile fails on a document the dialect's meta-schema rejects.
Compiles(schema) ==
    /\ schema.type \in JsonTypes
    /\ \A p \in DOMAIN schema.properties : schema.properties[p] \in JsonTypes

CompileError == [keyword |-> "compile", property |-> ""]

\* The errors of one member of an object instance, required before type.
PropertyErrors(schema, instance, p) ==
    IF p \notin DOMAIN instance.fields
    THEN IF p \in schema.required
         THEN <<[keyword |-> "required", property |-> p]>>
         ELSE <<>>
    ELSE IF /\ p \in DOMAIN schema.properties
            /\ instance.fields[p].type # schema.properties[p]
         THEN <<[keyword |-> "type", property |-> p]>>
         ELSE <<>>

RECURSIVE ObjectErrors(_, _, _)
ObjectErrors(schema, instance, i) ==
    IF i > Len(PropOrder)
    THEN <<>>
    ELSE PropertyErrors(schema, instance, PropOrder[i])
             \o ObjectErrors(schema, instance, i + 1)

\* The error list of validate: properties and required constrain objects
\* only, so an instance of another type fails on the type keyword alone.
Validate(schema, instance) ==
    IF instance.type # schema.type
    THEN <<[keyword |-> "type", property |-> ""]>>
    ELSE IF instance.type = "object"
         THEN ObjectErrors(schema, instance, 1)
         ELSE <<>>

\* Mutant: a document that does not compile is validated against as it is.
validate_data_uncompiled(schema, instance) ==
    LET errors == Validate(schema, instance)
    IN  IF errors # <<>>
        THEN [ok |-> FALSE, errors |-> errors]
        ELSE [ok |-> TRUE, errors |-> <<>>]

\* fn validate_data: Ok(()) or Err(error messages).
validate_data(schema, instance) ==
    IF ~Compiles(schema)
    THEN [ok |-> FALSE, errors |-> <<CompileError>>]
    ELSE LET errors == Validate(schema, instance)
         IN  IF errors # <<>>
             THEN [ok |-> FALSE, errors |-> errors]
             ELSE [ok |-> TRUE, errors |-> <<>>]

(***************************************************************************)
(* std::collections::HashMap as a function on the set of its keys.         *)
(***************************************************************************)
HashMapNew == [k \in {} |-> 0]

HashMapInsert(map, key, value) ==
    [k \in DOMAIN map \cup {key} |-> IF k = key THEN value ELSE map[k]]

HashMapRemove(map, key) == [k \in DOMAIN map \ {key} |-> map[k]]

(***************************************************************************)
(* State.                                                                  *)
(*   schemas   AppState.schemas: model name -> schema document             *)
(*   data      AppState.data: model name -> (id -> record)                 *)
(*   issued    the ids Uuid::new_v4 has returned so far                    *)
(*   resp      the last request and the response its handler returned      *)
(* History of the responses, kept for stating properties of later          *)
(* requests (see Observe):                                                 *)
(*   created   id -> model name, for every id a 201 response carried       *)
(*   pristine  (model name, id) -> payload, for every record a 201         *)
(*             response announced and no update or delete has answered     *)
(*             200 for since                                               *)
(*   deleted   the (model name, id) pairs a delete has answered 200 for    *)
(*   latest    model name -> the schema of the last upload answered 200    *)
(*   repeated  the last response answered an upload of the very document   *)
(*             the last upload under that name had carried                 *)
(* The worker threads that run handlers in parallel (see SpecC):           *)
(*   pc             worker -> the place in its handler it is at            *)
(*   req            worker -> the request it is handling                   *)
(*   answer         worker -> the response it returned                     *)
(*   the_schema     worker -> the handler's local `schema`                 *)
(*   schemas_guard  the worker that holds the lock of AppState.schemas     *)
(*   data_guard     the worker that holds the lock of AppState.data        *)
(***************************************************************************)
VARIABLES schemas, data, issued, resp, created, pristine, deleted, latest,
          repeated, pc, req, answer, the_schema, schemas_guard, data_guard

\* The state of the worker threads.
threads == <<pc, req, answer, the_schema, schemas_guard, data_guard>>

\* The history of the responses.
history == <<created, pristine, deleted, latest, repeated>>

vars == <<schemas, data, issued, resp, created, pristine, deleted, latest,
          repeated, pc, req, answer, the_schema, schemas_guard, data_guard>>

\* The actix workers that run handlers in parallel.
Workers == {"w1", "w2"}

\* The holder of a Mutex nobody has locked.
NoWorker == ""

\* The request of a worker that has none.
NoRequest == [op |-> "none", model_name |-> "", item_id |-> NoId,
              item |-> NoValue]

\* The local `schema` of a handler that has not looked one up.
NoSchema == [type |-> "", properties |-> NoProperties, required |-> {}]

\* A request and the HttpResponse of its handler.  message is the body's
\* text or "message" member; id, item_data and errors are its "id", "data"
\* and "errors" members.
Response(op, model_name, item_id, item, status, message, id, item_data, errors) ==
    [op |-> op, model_name |-> model_name, item_id |-> item_id, item |-> item,
     status |-> status, message |-> message, id |-> id, data |-> item_data,
     errors |-> errors]

\* HttpResponse::BadRequest().body("No schema found for model ...")
NoSchemaFound(op, model_name, item_id, item) ==
    Response(op, model_name, item_id, item, StatusBadRequest,
             "No schema found", NoId, NoValue, <<>>)

\* HttpResponse::BadRequest().json({"status": "error",
\*     "message": "Validation failed", "errors": errors})
ValidationFailed(op, model_name, item_id, item, errors) ==
    Response(op, model_name, item_id, item, StatusBadRequest,
             "Validation failed", NoId, NoValue, errors)

\* HttpResponse::NotFound().body("Item with ID ... not found in model ...")
ItemNotFound(op, model_name, item_id, item) ==
    Response(op, model_name, item_id, item, StatusNotFound,
             "not found", NoId, NoValue, <<>>)

\* What a client can tell from the response just returned, when requests
\* are served one at a time (no worker is inside a handler between steps).
Observe ==
    LET key == <<resp'.model_name, resp'.item_id>>
    IN  /\ UNCHANGED threads
        /\ created' =
               IF resp'.op = "create_item" /\ resp'.status = StatusCreated
               THEN HashMapInsert(created, resp'.id, resp'.model_name)
               ELSE created
        /\ pristine' =
               IF resp'.op = "create_item" /\ resp'.status = StatusCreated
               THEN HashMapInsert(pristine, <<resp'.model_name, resp'.id>>,
                                  resp'.item)
               ELSE IF /\ resp'.op \in {"update_item", "delete_item"}
                       /\ resp'.status = StatusOk
                    THEN HashMapRemove(pristine, key)
                    ELSE pristine
        /\ deleted' =
               IF resp'.op = "delete_item" /\ resp'.status = StatusOk
               THEN deleted \cup {key}
               ELSE deleted
        /\ latest' =
               IF resp'.op = "upload_schema" /\ resp'.status = StatusOk
               THEN HashMapInsert(latest, resp'.model_name, resp'.item)
               ELSE latest
        /\ repeated' =
               /\ resp'.op = "upload_schema"
               /\ resp'.status = StatusOk
               /\ resp'.model_name \in DOMAIN latest
               /\ latest[resp'.model_name] = resp'.item

\* No response yet.
NoResponse ==
    Response("none", "", NoId, NoValue, StatusOk, "", NoId, NoValue, <<>>)

\* No worker is inside a handler and no lock is held.
ThreadsIdle ==
    /\ pc = [w \in Workers |-> "idle"]
    /\ req = [w \in Workers |-> NoRequest]
    /\ answer = [w \in Workers |-> NoResponse]
    /\ the_schema = [w \in Workers |-> NoSchema]
    /\ schemas_guard = NoWorker
    /\ data_guard = NoWorker

\* main: both maps start empty.
Init ==
    /\ ThreadsIdle
    /\ schemas = HashMapNew
    /\ data = HashMapNew
    /\ issued = {}
    /\ resp = NoResponse
    /\ created = HashMapNew
    /\ pristine = HashMapNew
    /\ deleted = {}
    /\ latest = HashMapNew
    /\ repeated = FALSE

\* Uuid::new_v4: the ids a call can return, none of them returned before.
\* Mutant: an id is free again once no collection holds it.
NewV4_recycled ==
    Ids \ UNION {DOMAIN data[model_name] : model_name \in DOMAIN data}

\* Mutant: an id may be one that was returned before.
NewV4_repeating == Ids

NewV4 == Ids \ issued

\* item_data.get(&model_name) and model_data.get(&item_id) both Some.
Stored(store, model_name, item_id) ==
    /\ model_name \in DOMAIN store
    /\ item_id \in DOMAIN store[model_name]

\* Mutant: one collection shared by all models: the record goes into every
\* collection there is.
Inserted_shared(store, model_name, id, item) ==
    [n \in DOMAIN store \cup {model_name} |->
        HashMapInsert(IF n \in DOMAIN store THEN store[n] ELSE HashMapNew,
                      id, item)]

\* Mutant: the model's collection is created anew on every insert.
Inserted_new_collection(store, model_name, id, item) ==
    HashMapInsert(store, model_name, HashMapInsert(HashMapNew, id, item))

\* item_data.entry(model_name).or_insert_with(HashMap::new), then
\* model_data.insert(id, item): the store afterwards.
Inserted(store, model_name, id, item) ==
    LET model_data ==
            IF model_name \in DOMAIN store THEN store[model_name] ELSE HashMapNew
    IN  HashMapInsert(store, model_name, HashMapInsert(model_data, id, item))

\* Mutant: the payload's members are merged into the stored object.
Replaced_merged(store, model_name, item_id, item) ==
    LET old == store[model_name][item_id]
        merged == [p \in DOMAIN old.fields \cup DOMAIN item.fields |->
                      IF p \in DOMAIN item.fields
                      THEN item.fields[p]
                      ELSE old.fields[p]]
    IN  [store EXCEPT ![model_name] =
            [store[model_name] EXCEPT ![item_id] = JObject(merged)]]

\* *existing_item = item.into_inner(): the store afterwards.
Replaced(store, model_name, item_id, item) ==
    [store EXCEPT ![model_name] = [store[model_name] EXCEPT ![item_id] = item]]

\* model_data.remove(&item_id): the store afterwards.
Removed(store, model_name, item_id) ==
    [store EXCEPT ![model_name] = HashMapRemove(store[model_name], item_id)]

(***************************************************************************)
(* POST /api/schema                                                        *)
(***************************************************************************)
\* Mutant: a document that does not compile is refused with 400.
upload_schema_checked(name, schema) ==
    /\ IF Compiles(schema)
       THEN /\ schemas' = HashMapInsert(schemas, name, schema)
            /\ resp' = Response("upload_schema", name, NoId, schema, StatusOk,
                                "Schema uploaded", NoId, NoValue, <<>>)
       ELSE /\ schemas' = schemas
            /\ resp' = Response("upload_schema", name, NoId, schema,
                                StatusBadRequest, "Validation failed", NoId,
                                NoValue, <<CompileError>>)
    /\ UNCHANGED <<data, issued>>
    /\ Observe

\* Mutant: uploading the document a name already has unregisters the name.
upload_schema_toggle(name, schema) ==
    /\ schemas' = IF name \in DOMAIN schemas /\ schemas[name] = schema
                  THEN HashMapRemove(schemas, name)
                  ELSE HashMapInsert(schemas, name, schema)
    /\ resp' = Response("upload_schema", name, NoId, schema, StatusOk,
                        "Schema uploaded", NoId, NoValue, <<>>)
    /\ UNCHANGED <<data, issued>>
    /\ Observe

\* Mutant: the first schema uploaded under a name stays (or_insert).
upload_schema_keep_first(name, schema) ==
    /\ schemas' = IF name \in DOMAIN schemas
                  THEN schemas
                  ELSE HashMapInsert(schemas, name, schema)
    /\ resp' = Response("upload_schema", name, NoId, schema, StatusOk,
                        "Schema uploaded", NoId, NoValue, <<>>)
    /\ UNCHANGED <<data, issued>>
    /\ Observe

\* Mutant: replacing a schema drops the records of the model.
upload_schema_reset(name, schema) ==
    /\ schemas' = HashMapInsert(schemas, name, schema)
    /\ data' = IF name \in DOMAIN schemas /\ name \in DOMAIN data
               THEN HashMapRemove(data, name)
               ELSE data
    /\ resp' = Response("upload_schema", name, NoId, schema, StatusOk,
                        "Schema uploaded", NoId, NoValue, <<>>)
    /\ UNCHANGED issued
    /\ Observe

upload_schema(name, schema) ==
    /\ schemas' = HashMapInsert(schemas, name, schema)
    /\ resp' = Response("upload_schema", name, NoId, schema, StatusOk,
                        "Schema uploaded", NoId, NoValue, <<>>)
    /\ UNCHANGED <<data, issued>>
    /\ Observe

(***************************************************************************)
(* POST /api/{model_name}                                                  *)
(***************************************************************************)
\* Mutant: a model without a schema accepts every payload.
create_item_no_lookup(model_name, item) ==
    /\ LET result == IF model_name \in DOMAIN schemas
                     THEN validate_data(schemas[model_name], item)
                     ELSE [ok |-> TRUE, errors |-> <<>>]
       IN  IF ~result.ok
           THEN /\ resp' = ValidationFailed("create_item", model_name,
                                            NoId, item, result.errors)
                /\ UNCHANGED <<schemas, data, issued>>
           ELSE \E id \in NewV4 :
                  /\ issued' = issued \cup {id}
                  /\ data' = Inserted(data, model_name, id, item)
                  /\ resp' = Response("create_item", model_name, NoId,
                                      item, StatusCreated, "", id,
                                      data'[model_name][id], <<>>)
                  /\ UNCHANGED schemas
    /\ Observe

\* Mutant: the record is inserted before the payload is validated.
create_item_insert_first(model_name, item) ==
    /\ IF model_name \notin DOMAIN schemas
       THEN /\ resp' = NoSchemaFound("create_item", model_name, NoId, item)
            /\ UNCHANGED <<schemas, data, issued>>
       ELSE \E id \in NewV4 :
              LET result == validate_data(schemas[model_name], item)
              IN  /\ issued' = issued \cup {id}
                  /\ data' = Inserted(data, model_name, id, item)
                  /\ resp' = IF ~result.ok
                             THEN ValidationFailed("create_item", model_name,
                                                   NoId, item, result.errors)
                             ELSE Response("create_item", model_name, NoId,
                                           item, StatusCreated, "", id,
                                           data'[model_name][id], <<>>)
                  /\ UNCHANGED schemas
    /\ Observe

create_item(model_name, item) ==
    /\ IF model_name \notin DOMAIN schemas
       THEN /\ resp' = NoSchemaFound("create_item", model_name, NoId, item)
            /\ UNCHANGED <<schemas, data, issued>>
       ELSE LET result == validate_data(schemas[model_name], item)
            IN  IF ~result.ok
                THEN /\ resp' = ValidationFailed("create_item", model_name,
                                                 NoId, item, result.errors)
                     /\ UNCHANGED <<schemas, data, issued>>
                ELSE \E id \in NewV4 :
                       /\ issued' = issued \cup {id}
                       /\ data' = Inserted(data, model_name, id, item)
                       /\ resp' = Response("create_item", model_name, NoId,
                                           item, StatusCreated, "", id,
                                           data'[model_name][id], <<>>)
                       /\ UNCHANGED schemas
    /\ Observe

(***************************************************************************)
(* GET /api/{model_name}/{id}                                              *)
(***************************************************************************)
\* The response of get_item on a given store.
GetResponse(store, model_name, item_id) ==
    IF Stored(store, model_name, item_id)
    THEN Response("get_item", model_name, item_id, NoValue, StatusOk, "",
                  NoId, store[model_name][item_id], <<>>)
    ELSE ItemNotFound("get_item", model_name, item_id, NoValue)

\* Mutant: a stored record is checked against the model's schema on reading.
get_item_revalidating(model_name, item_id) ==
    /\ resp' = IF /\ Stored(data, model_name, item_id)
                  /\ model_name \in DOMAIN schemas
                  /\ validate_data(schemas[model_name],
                                   data[model_name][item_id]).ok
               THEN GetResponse(data, model_name, item_id)
               ELSE ItemNotFound("get_item", model_name, item_id, NoValue)
    /\ UNCHANGED <<schemas, data, issued>>
    /\ Observe

get_item(model_name, item_id) ==
    /\ resp' = GetResponse(data, model_name, item_id)
    /\ UNCHANGED <<schemas, data, issued>>
    /\ Observe

(***************************************************************************)
(* PUT /api/{model_name}/{id}                                              *)
(***************************************************************************)
\* Mutant: the existence check comes first, before the schema lookup.
update_item_exists_first(model_name, item_id, item) ==
    /\ IF ~Stored(data, model_name, item_id)
       THEN /\ resp' = ItemNotFound("update_item", model_name, item_id, item)
            /\ UNCHANGED <<schemas, data, issued>>
       ELSE IF model_name \notin DOMAIN schemas
            THEN /\ resp' = NoSchemaFound("update_item", model_name, item_id,
                                          item)
                 /\ UNCHANGED <<schemas, data, issued>>
            ELSE LET result == validate_data(schemas[model_name], item)
                 IN  IF ~result.ok
                     THEN /\ resp' = ValidationFailed("update_item",
                                          model_name, item_id, item,
                                          result.errors)
                          /\ UNCHANGED <<schemas, data, issued>>
                     ELSE /\ data' = Replaced(data, model_name, item_id, item)
                          /\ resp' = Response("update_item", model_name,
                                              item_id, item, StatusOk,
                                              "updated", NoId,
                                              data'[model_name][item_id], <<>>)
                          /\ UNCHANGED <<schemas, issued>>
    /\ Observe

\* Mutant: the schema lookup first, then the existence check, validation last.
update_item_validate_last(model_name, item_id, item) ==
    /\ IF model_name \notin DOMAIN schemas
       THEN /\ resp' = NoSchemaFound("update_item", model_name, item_id, item)
            /\ UNCHANGED <<schemas, data, issued>>
       ELSE IF ~Stored(data, model_name, item_id)
            THEN /\ resp' = ItemNotFound("update_item", model_name, item_id,
                                         item)
                 /\ UNCHANGED <<schemas, data, issued>>
            ELSE LET result == validate_data(schemas[model_name], item)
                 IN  IF ~result.ok
                     THEN /\ resp' = ValidationFailed("update_item",
                                          model_name, item_id, item,
                                          result.errors)
                          /\ UNCHANGED <<schemas, data, issued>>
                     ELSE /\ data' = Replaced(data, model_name, item_id, item)
                          /\ resp' = Response("update_item", model_name,
                                              item_id, item, StatusOk,
                                              "updated", NoId,
                                              data'[model_name][item_id], <<>>)
                          /\ UNCHANGED <<schemas, issued>>
    /\ Observe

update_item(model_name, item_id, item) ==
    /\ IF model_name \notin DOMAIN schemas
       THEN /\ resp' = NoSchemaFound("update_item", model_name, item_id, item)
            /\ UNCHANGED <<schemas, data, issued>>
       ELSE LET result == validate_data(schemas[model_name], item)
            IN  IF ~result.ok
                THEN /\ resp' = ValidationFailed("update_item", model_name,
                                                 item_id, item, result.errors)
                     /\ UNCHANGED <<schemas, data, issued>>
                ELSE IF Stored(data, model_name, item_id)
                     THEN /\ data' = Replaced(data, model_name, item_id, item)
                          /\ resp' = Response("update_item", model_name,
                                              item_id, item, StatusOk,
                                              "updated", NoId,
                                              data'[model_name][item_id], <<>>)
                          /\ UNCHANGED <<schemas, issued>>
                     ELSE /\ resp' = ItemNotFound("update_item", model_name,
                                                  item_id, item)
                          /\ UNCHANGED <<schemas, data, issued>>
    /\ Observe

(***************************************************************************)
(* DELETE /api/{model_name}/{id}                                           *)
(***************************************************************************)
delete_item(model_name, item_id) ==
    /\ IF Stored(data, model_name, item_id)
       THEN /\ data' = Removed(data, model_name, item_id)
            /\ resp' = Response("delete_item", model_name, item_id, NoValue,
                                StatusOk, "deleted", NoId, NoValue, <<>>)
            /\ UNCHANGED <<schemas, issued>>
       ELSE /\ resp' = ItemNotFound("delete_item", model_name, item_id, NoValue)
            /\ UNCHANGED <<schemas, data, issued>>
    /\ Observe

(***************************************************************************)
(* The service: any request, with any path and body, at any time.          *)
(***************************************************************************)
Next ==
    \/ \E upload \in Uploads : upload_schema(upload[1], upload[2])
    \/ \E model_name \in ModelNames, item \in Payloads : create_item(model_name, item)
    \/ \E model_name \in ModelNames, item_id \in Ids : get_item(model_name, item_id)
    \/ \E model_name \in ModelNames, item_id \in Ids, item \in Payloads :
           update_item(model_name, item_id, item)
    \/ \E model_name \in ModelNames, item_id \in Ids : delete_item(model_name, item_id)

Spec == Init /\ [][Next]_vars

(***************************************************************************)
(* The handlers running in parallel.  HttpServer runs several workers; a   *)
(* handler has no await in it, so it runs from its first line to its       *)
(* return on its worker's thread, and it stops only to wait for a Mutex.   *)
(* Each worker handles one request; a step is the code between two lock    *)
(* operations, or one of lookup, validation and the access to the store.   *)
(***************************************************************************)
\* The requests a worker can be given.
Requests ==
    {[op |-> "upload_schema", model_name |-> upload[1], item_id |-> NoId,
      item |-> upload[2]] : upload \in Uploads}
    \cup {[op |-> "create_item", model_name |-> pair[1], item_id |-> NoId,
           item |-> pair[2]] : pair \in ModelNames \X Payloads}
    \cup {[op |-> op, model_name |-> pair[1], item_id |-> pair[2],
           item |-> NoValue] :
              op \in {"get_item", "delete_item"}, pair \in ModelNames \X Ids}
    \cup {[op |-> "update_item", model_name |-> triple[1],
           item_id |-> triple[2], item |-> triple[3]] :
              triple \in ModelNames \X Ids \X Payloads}

\* States of the two maps that earlier requests leave behind: both empty;
\* a schema for "Task" and no record; the same with one record stored.
ServiceStates ==
    LET registry == HashMapInsert(HashMapNew, "Task", LooseSchema)
    IN  {[schemas |-> HashMapNew, data |-> HashMapNew, issued |-> {}],
         [schemas |-> registry, data |-> HashMapNew, issued |-> {}],
         [schemas |-> registry,
          data |-> Inserted(HashMapNew, "Task", 1, JaneDoe),
          issued |-> {1}]}

\* Every worker has a request and is about to enter its handler.  The
\* creates among them need an id each.
InitC ==
    /\ \E state \in ServiceStates :
           /\ schemas = state.schemas
           /\ data = state.data
           /\ issued = state.issued
    /\ resp = NoResponse
    /\ created = HashMapNew
    /\ pristine = HashMapNew
    /\ deleted = {}
    /\ latest = HashMapNew
    /\ repeated = FALSE
    /\ req \in [Workers -> Requests]
    /\ Cardinality(issued)
           + Cardinality({w \in Workers : req[w].op = "create_item"}) <= MaxIds
    /\ pc = [w \in Workers |-> "start"]
    /\ answer = [w \in Workers |-> NoResponse]
    /\ the_schema = [w \in Workers |-> NoSchema]
    /\ schemas_guard = NoWorker
    /\ data_guard = NoWorker

\* Mutant: lock() returns at once, locked or not.
MutexFree_unchecked(mutex) == TRUE

\* Mutex::lock returns only when nobody holds the lock.
MutexFree(mutex) == mutex = NoWorker

\* Mutant: the guard is leaked, the lock stays locked.
Unlocked_leaked(mutex, w) == mutex

\* Dropping w's MutexGuard, if it has one: the holder afterwards.
Unlocked(mutex, w) == IF mutex = w THEN NoWorker ELSE mutex

\* The handler of w returns response: its guards are dropped.
Return(w, response) ==
    /\ answer' = [answer EXCEPT ![w] = response]
    /\ pc' = [pc EXCEPT ![w] = "done"]
    /\ the_schema' = [the_schema EXCEPT ![w] = NoSchema]
    /\ schemas_guard' = Unlocked(schemas_guard, w)
    /\ data_guard' = Unlocked(data_guard, w)

\* w goes on to the next place of its handler.
Goto(w, place) == pc' = [pc EXCEPT ![w] = place]

\* upload_schema: data.schemas.lock()
upload_schema_lock(w) ==
    /\ pc[w] = "start"
    /\ req[w].op = "upload_schema"
    /\ MutexFree(schemas_guard)
    /\ schemas_guard' = w
    /\ Goto(w, "insert_schema")
    /\ UNCHANGED <<schemas, data, issued, resp, history, req, answer,
                   the_schema, data_guard>>

\* upload_schema: schemas.insert(name, schema) and the response
upload_schema_insert(w) ==
    /\ pc[w] = "insert_schema"
    /\ schemas' = HashMapInsert(schemas, req[w].model_name, req[w].item)
    /\ Return(w, Response("upload_schema", req[w].model_name, NoId,
                          req[w].item, StatusOk, "Schema uploaded", NoId,
                          NoValue, <<>>))
    /\ UNCHANGED <<data, issued, resp, history, req>>

\* create_item, update_item: data.schemas.lock()
write_lock_schemas(w) ==
    /\ pc[w] = "start"
    /\ req[w].op \in {"create_item", "update_item"}
    /\ MutexFree(schemas_guard)
    /\ schemas_guard' = w
    /\ Goto(w, "lookup")
    /\ UNCHANGED <<schemas, data, issued, resp, history, req, answer,
                   the_schema, data_guard>>

\* create_item, update_item: schemas.get(&model_name)
write_lookup(w) ==
    /\ pc[w] = "lookup"
    /\ IF req[w].model_name \notin DOMAIN schemas
       THEN Return(w, NoSchemaFound(req[w].op, req[w].model_name,
                                    req[w].item_id, req[w].item))
       ELSE /\ the_schema' =
                   [the_schema EXCEPT ![w] = schemas[req[w].model_name]]
            /\ Goto(w, "validate")
            /\ UNCHANGED <<answer, schemas_guard, data_guard>>
    /\ UNCHANGED <<schemas, data, issued, resp, history, req>>

\* Mutant: the schema is copied out and its lock released before validation.
write_validate_unlocked(w) ==
    /\ pc[w] = "validate"
    /\ LET result == validate_data(the_schema[w], req[w].item)
       IN  IF ~result.ok
           THEN Return(w, ValidationFailed(req[w].op, req[w].model_name,
                                           req[w].item_id, req[w].item,
                                           result.errors))
           ELSE /\ Goto(w, "lock_data")
                /\ schemas_guard' = Unlocked(schemas_guard, w)
                /\ UNCHANGED <<answer, the_schema, data_guard>>
    /\ UNCHANGED <<schemas, data, issued, resp, history, req>>

\* create_item, update_item: validate_data(schema, &item)
write_validate(w) ==
    /\ pc[w] = "validate"
    /\ LET result == validate_data(the_schema[w], req[w].item)
       IN  IF ~result.ok
           THEN Return(w, ValidationFailed(req[w].op, req[w].model_name,
                                           req[w].item_id, req[w].item,
                                           result.errors))
           ELSE /\ Goto(w, "lock_data")
                /\ UNCHANGED <<answer, the_schema, schemas_guard, data_guard>>
    /\ UNCHANGED <<schemas, data, issued, resp, history, req>>

\* create_item, update_item: data.data.lock()
write_lock_data(w) ==
    /\ pc[w] = "lock_data"
    /\ MutexFree(data_guard)
    /\ data_guard' = w
    /\ Goto(w, IF req[w].op = "create_item" THEN "insert" ELSE "replace")
    /\ UNCHANGED <<schemas, data, issued, resp, history, req, answer,
                   the_schema, schemas_guard>>

\* create_item: the entry of the model, a new id, the insert, the response
create_item_insert(w) ==
    /\ pc[w] = "insert"
    /\ \E id \in NewV4 :
           /\ issued' = issued \cup {id}
           /\ data' = Inserted(data, req[w].model_name, id, req[w].item)
           /\ Return(w, Response("create_item", req[w].model_name, NoId,
                                 req[w].item, StatusCreated, "", id,
                                 data'[req[w].model_name][id], <<>>))
    /\ UNCHANGED <<schemas, resp, history, req>>

\* update_item: get_mut, the assignment, the response
update_item_replace(w) ==
    /\ pc[w] = "replace"
    /\ IF Stored(data, req[w].model_name, req[w].item_id)
       THEN /\ data' = Replaced(data, req[w].model_name, req[w].item_id,
                                req[w].item)
            /\ Return(w, Response("update_item", req[w].model_name,
                                  req[w].item_id, req[w].item, StatusOk,
                                  "updated", NoId,
                                  data'[req[w].model_name][req[w].item_id],
                                  <<>>))
       ELSE /\ data' = data
            /\ Return(w, ItemNotFound("update_item", req[w].model_name,
                                      req[w].item_id, req[w].item))
    /\ UNCHANGED <<schemas, issued, resp, history, req>>

\* get_item: data.data.lock()
get_item_lock(w) ==
    /\ pc[w] = "start"
    /\ req[w].op = "get_item"
    /\ MutexFree(data_guard)
    /\ data_guard' = w
    /\ Goto(w, "read")
    /\ UNCHANGED <<schemas, data, issued, resp, history, req, answer,
                   the_schema, schemas_guard>>

\* get_item: the two lookups and the response
get_item_read(w) ==
    /\ pc[w] = "read"
    /\ Return(w, GetResponse(data, req[w].model_name, req[w].item_id))
    /\ UNCHANGED <<schemas, data, issued, resp, history, req>>

\* delete_item: data.data.lock()
delete_item_lock(w) ==
    /\ pc[w] = "start"
    /\ req[w].op = "delete_item"
    /\ MutexFree(data_guard)
    /\ data_guard' = w
    /\ Goto(w, "remove")
    /\ UNCHANGED <<schemas, data, issued, resp, history, req, answer,
                   the_schema, schemas_guard>>

\* delete_item: get_mut, remove, the response
delete_item_remove(w) ==
    /\ pc[w] = "remove"
    /\ IF Stored(data, req[w].model_name, req[w].item_id)
       THEN /\ data' = Removed(data, req[w].model_name, req[w].item_id)
            /\ Return(w, Response("delete_item", req[w].model_name,
                                  req[w].item_id, NoValue, StatusOk,
                                  "deleted", NoId, NoValue, <<>>))
       ELSE /\ data' = data
            /\ Return(w, ItemNotFound("delete_item", req[w].model_name,
                                      req[w].item_id, NoValue))
    /\ UNCHANGED <<schemas, issued, resp, history, req>>

\* One step of worker w.
Step(w) ==
    \/ upload_schema_lock(w)
    \/ upload_schema_insert(w)
    \/ write_lock_schemas(w)
    \/ write_lookup(w)
    \/ write_validate(w)
    \/ write_lock_data(w)
    \/ create_item_insert(w)
    \/ update_item_replace(w)
    \/ get_item_lock(w)
    \/ get_item_read(w)
    \/ delete_item_lock(w)
    \/ delete_item_remove(w)

NextC == \E w \in Workers : Step(w)

SpecC == InitC /\ [][NextC]_vars

\* Every worker thread that can run does run: a thread waiting for a Mutex
\* goes on once the lock is free.
FairSpecC == SpecC /\ \A w \in Workers : WF_vars(Step(w))

(***************************************************************************)
(* Vocabulary of the properties: the outcomes of a response, and the       *)
(* request it answers.                                                     *)
(***************************************************************************)
IsNoSuchModel(r) == r.status = StatusBadRequest /\ r.message = "No schema found"

IsValidationFailed(r) ==
    r.status = StatusBadRequest /\ r.message = "Validation failed"

IsNotFound(r) == r.status = StatusNotFound

IsWrite(r) == r.op \in {"create_item", "update_item"}

\* The payload of request r satisfies the schema registry holds for r's model.
ValidIn(registry, r) ==
    /\ r.model_name \in DOMAIN registry
    /\ validate_data(registry[r.model_name], r.item).ok

\* The ids of a model's collection (none when it has no collection).
KeysOf(store, model_name) ==
    IF model_name \in DOMAIN store THEN DOMAIN store[model_name] ELSE {}

(***************************************************************************)
(* C1  Validation gate.  Whenever a create_item or update_item request     *)
(* names a model with a registered schema and carries a payload that       *)
(* fails validate_data against it, the response is 400 "Validation         *)
(* failed" with at least one error, and the step leaves the record store   *)
(* as it was: nothing added, replaced or removed.                          *)
(***************************************************************************)
C1_ValidationGate ==
    [][(/\ IsWrite(resp')
        /\ resp'.model_name \in DOMAIN schemas
        /\ ~ValidIn(schemas, resp'))
       => (/\ IsValidationFailed(resp')
           /\ Len(resp'.errors) > 0
           /\ data' = data)]_vars

\* An update of an id that is not stored, rejected with two errors while the
\* model holds a record.
C1_Witness ==
    /\ resp.op = "update_item"
    /\ IsValidationFailed(resp)
    /\ Len(resp.errors) = 2
    /\ ~Stored(data, resp.model_name, resp.item_id)
    /\ KeysOf(data, resp.model_name) # {}

(***************************************************************************)
(* C2  Round trip.  A 201 response of create_item carries the payload as   *)
(* the stored value, and as long as no update_item or delete_item on that  *)
(* (model, id) has answered 200, every get_item of it answers 200 with     *)
(* exactly that payload, whatever schemas were uploaded in between.        *)
(***************************************************************************)
C2_RoundTrip ==
    /\ (resp.op = "create_item" /\ resp.status = StatusCreated)
           => resp.data = resp.item
    /\ (resp.op = "get_item"
            /\ <<resp.model_name, resp.item_id>> \in DOMAIN pristine)
           => (/\ resp.status = StatusOk
               /\ resp.data = pristine[<<resp.model_name, resp.item_id>>])

\* A get of a record that the schema now registered for its model rejects.
C2_Witness ==
    /\ resp.op = "get_item"
    /\ <<resp.model_name, resp.item_id>> \in DOMAIN pristine
    /\ resp.data = JaneDoe
    /\ resp.model_name \in DOMAIN schemas
    /\ ~validate_data(schemas[resp.model_name], resp.data).ok

(***************************************************************************)
(* C3  Deletion finality.  Once delete_item has answered 200 for a         *)
(* (model, id), every later get_item and delete_item of it, and every      *)
(* later update_item of it with a payload valid for the model's schema,    *)
(* answers 404, whatever requests came in between.                         *)
(***************************************************************************)
C3_DeletionFinality ==
    [][(/\ <<resp'.model_name, resp'.item_id>> \in deleted
        /\ \/ resp'.op \in {"get_item", "delete_item"}
           \/ resp'.op = "update_item" /\ ValidIn(schemas, resp'))
       => IsNotFound(resp')]_vars

\* A valid update of a deleted id answers 404 while the model holds another
\* record.
C3_Witness ==
    /\ resp.op = "update_item"
    /\ IsNotFound(resp)
    /\ <<resp.model_name, resp.item_id>> \in deleted
    /\ KeysOf(data, resp.model_name) # {}

(***************************************************************************)
(* C4  Model isolation.                                                    *)
(***************************************************************************)
\* Request r addresses, under its own model name, an id that a create_item
\* returned under another model name.
CrossModel(r) ==
    /\ r.item_id \in DOMAIN created
    /\ created[r.item_id] # r.model_name

\* A create, update or delete step leaves the collection of every model
\* other than the one it addresses as it was.
OtherModelsUntouched ==
    resp'.op \in {"create_item", "update_item", "delete_item"}
        => \A other \in ModelNames \ {resp'.model_name} :
               /\ (other \in DOMAIN data') = (other \in DOMAIN data)
               /\ other \in DOMAIN data => data'[other] = data[other]

\* C4 as claimed: get_item, update_item (with any payload) and delete_item of
\* another model's id all answer 404, and writes to one model leave the
\* other models' collections unchanged.
C4_AllReturnNotFound ==
    [][/\ (resp'.op \in {"get_item", "update_item", "delete_item"}
              /\ CrossModel(resp'))
          => IsNotFound(resp')
       /\ OtherModelsUntouched]_vars

\* C4 as amended: get_item and delete_item of another model's id answer 404;
\* update_item of it never succeeds: it answers 404 when the addressed model
\* has a schema and the payload is valid for it, and otherwise the 400 of the
\* earlier check (no schema, or validation failed); and writes to one model
\* leave the other models' collections unchanged.
C4_ModelIsolation ==
    [][/\ (resp'.op \in {"get_item", "delete_item"} /\ CrossModel(resp'))
          => IsNotFound(resp')
       /\ (resp'.op = "update_item" /\ CrossModel(resp'))
          => IF ValidIn(schemas, resp')
             THEN IsNotFound(resp')
             ELSE IF resp'.model_name \in DOMAIN schemas
                  THEN IsValidationFailed(resp')
                  ELSE IsNoSuchModel(resp')
       /\ OtherModelsUntouched]_vars

\* A valid update that names another model's stored id answers 404.
C4_Witness ==
    /\ resp.op = "update_item"
    /\ CrossModel(resp)
    /\ IsNotFound(resp)
    /\ Stored(data, created[resp.item_id], resp.item_id)

(***************************************************************************)
(* C5  Order of checks in update_item: an update of a model without a      *)
(* schema answers 400 "No schema found" whatever the id and payload; with  *)
(* a schema and an invalid payload it answers 400 "Validation failed"      *)
(* even when the id is not stored; it answers 404 exactly when the model   *)
(* has a schema, the payload is valid and the id is not stored.            *)
(***************************************************************************)
C5_UpdateCheckOrder ==
    resp.op = "update_item"
        => /\ resp.model_name \notin DOMAIN schemas => IsNoSuchModel(resp)
           /\ (resp.model_name \in DOMAIN schemas /\ ~ValidIn(schemas, resp))
                  => IsValidationFailed(resp)
           /\ IsNotFound(resp)
                  <=> (/\ ValidIn(schemas, resp)
                       /\ ~Stored(data, resp.model_name, resp.item_id))

\* An invalid payload for an id that is not stored: validation failed.
C5_Witness ==
    /\ resp.op = "update_item"
    /\ IsValidationFailed(resp)
    /\ ~Stored(data, resp.model_name, resp.item_id)
    /\ Compiles(schemas[resp.model_name])

(***************************************************************************)
(* C6  NoSuchModel.  A create_item or update_item on a model name no       *)
(* schema was ever uploaded for answers 400 "No schema found" for every    *)
(* payload, carries no validation errors, and changes neither the schema   *)
(* registry nor the record store.                                          *)
(***************************************************************************)
C6_NoSuchModel ==
    [][(IsWrite(resp') /\ resp'.model_name \notin DOMAIN latest)
       => (/\ IsNoSuchModel(resp')
           /\ resp'.errors = <<>>
           /\ schemas' = schemas
           /\ data' = data)]_vars

\* A payload that another model's schema accepts, sent to a model that was
\* never registered, while the other model holds records.
C6_Witness ==
    /\ resp.op = "create_item"
    /\ IsNoSuchModel(resp)
    /\ resp.item = LearnRust
    /\ \E other \in DOMAIN latest : KeysOf(data, other) # {}

(***************************************************************************)
(* C7  Last write wins.  The registry holds, under each name, the schema   *)
(* of the last upload for that name, and a create_item or update_item on   *)
(* a registered model is rejected with "Validation failed" exactly when    *)
(* its payload fails that last schema, with that schema's errors.          *)
(***************************************************************************)
C7_LastWriteWins ==
    /\ schemas = latest
    /\ (IsWrite(resp) /\ resp.model_name \in DOMAIN latest)
           => /\ IsValidationFailed(resp) <=> ~ValidIn(latest, resp)
              /\ resp.errors
                     = validate_data(latest[resp.model_name], resp.item).errors

\* A payload the earlier schema accepted (a record of it is stored) is
\* rejected under the replacement.
C7_Witness ==
    /\ resp.op = "create_item"
    /\ IsValidationFailed(resp)
    /\ resp.item = JaneDoe
    /\ latest[resp.model_name] = TaskSchema
    /\ \E id \in KeysOf(data, resp.model_name) :
           data[resp.model_name][id] = JaneDoe

(***************************************************************************)
(* C8  Wholesale update.  An update_item with a payload valid for the      *)
(* model's schema: if the id is stored, it answers 200 with the payload,   *)
(* a get_item afterwards returns exactly the payload, and the keys of      *)
(* every collection and every other record are as before; if the id is     *)
(* not stored, it answers 404 and the store is unchanged.                  *)
(***************************************************************************)
C8_WholesaleUpdate ==
    [][(resp'.op = "update_item" /\ ValidIn(schemas, resp'))
       => LET m == resp'.model_name
              id == resp'.item_id
          IN  IF Stored(data, m, id)
              THEN /\ resp'.status = StatusOk
                   /\ resp'.data = resp'.item
                   /\ GetResponse(data', m, id).status = StatusOk
                   /\ GetResponse(data', m, id).data = resp'.item
                   /\ DOMAIN data' = DOMAIN data
                   /\ \A n \in DOMAIN data :
                          /\ DOMAIN data'[n] = DOMAIN data[n]
                          /\ \A k \in DOMAIN data[n] :
                                 <<n, k>> # <<m, id>> => data'[n][k] = data[n][k]
              ELSE /\ IsNotFound(resp')
                   /\ data' = data]_vars

\* A record replaced by a payload with fewer members, beside another record.
C8_Witness ==
    /\ resp.op = "update_item"
    /\ resp.status = StatusOk
    /\ resp.item = JaneDoe
    /\ Cardinality(KeysOf(data, resp.model_name)) >= 2

(***************************************************************************)
(* C9  Every model that holds at least one record has a schema registered  *)
(* under its name.                                                         *)
(***************************************************************************)
C9_PopulatedHasSchema ==
    \A model_name \in ModelNames :
        KeysOf(data, model_name) # {} => model_name \in DOMAIN schemas

\* One model holds a record while another has a schema and no record.
C9_Witness ==
    /\ \E model_name \in ModelNames : KeysOf(data, model_name) # {}
    /\ \E model_name \in DOMAIN schemas : KeysOf(data, model_name) = {}

(***************************************************************************)
(* C10  Fresh insert.  A create_item with a payload valid for the model's  *)
(* schema answers 201 with an id that was no key of the model's            *)
(* collection, and the collection afterwards is the one before plus the    *)
(* pair (id, payload): no record of it is overwritten or removed.          *)
(***************************************************************************)
C10_FreshInsert ==
    [][(resp'.op = "create_item" /\ ValidIn(schemas, resp'))
       => LET m == resp'.model_name
          IN  /\ resp'.status = StatusCreated
              /\ resp'.id \notin KeysOf(data, m)
              /\ KeysOf(data', m) = KeysOf(data, m) \cup {resp'.id}
              /\ data'[m][resp'.id] = resp'.item
              /\ \A k \in KeysOf(data, m) : data'[m][k] = data[m][k]]_vars

\* A create into a collection that already held a record.
C10_Witness ==
    /\ resp.op = "create_item"
    /\ resp.status = StatusCreated
    /\ Cardinality(KeysOf(data, resp.model_name)) >= 2

(***************************************************************************)
(* C11  Schema compile failure.  When the document registered under a      *)
(* model does not compile, every create_item and update_item on the model  *)
(* answers 400 "Validation failed" with an error list of exactly one       *)
(* element, the compile error, and leaves the record store as it was.      *)
(***************************************************************************)
C11_CompileFailure ==
    [][(/\ IsWrite(resp')
        /\ resp'.model_name \in DOMAIN schemas
        /\ ~Compiles(schemas[resp'.model_name]))
       => (/\ IsValidationFailed(resp')
           /\ resp'.errors = <<CompileError>>
           /\ data' = data)]_vars

\* A payload that was stored under an earlier schema of the model is refused
\* once the model's document no longer compiles.
C11_Witness ==
    /\ resp.op = "update_item"
    /\ IsValidationFailed(resp)
    /\ ~Compiles(schemas[resp.model_name])
    /\ Stored(data, resp.model_name, resp.item_id)
    /\ data[resp.model_name][resp.item_id] = resp.item

(***************************************************************************)
(* C12  upload_schema answers 200 for every document, compiling or not,    *)
(* in every state; it sets the registry entry of its name to the document  *)
(* and leaves the entries of all other names and the whole record store    *)
(* as they were.                                                           *)
(***************************************************************************)
C12_UploadAlwaysSucceeds ==
    [][resp'.op = "upload_schema"
       => (/\ resp'.status = StatusOk
           /\ DOMAIN schemas' = DOMAIN schemas \cup {resp'.model_name}
           /\ schemas'[resp'.model_name] = resp'.item
           /\ \A name \in DOMAIN schemas \ {resp'.model_name} :
                  schemas'[name] = schemas[name]
           /\ data' = data)]_vars

\* A document that does not compile is accepted over one that does, for a
\* model that holds records.
C12_Witness ==
    /\ resp.op = "upload_schema"
    /\ resp.status = StatusOk
    /\ ~Compiles(resp.item)
    /\ schemas[resp.model_name] = resp.item
    /\ KeysOf(data, resp.model_name) # {}

(***************************************************************************)
(* C13  Idempotence of replacement.  An upload of the document that the    *)
(* last upload under the same name carried leaves the registry as it was,  *)
(* so every payload is accepted or rejected for every model as before.     *)
(***************************************************************************)
C13_ReuploadIdempotent ==
    [][(/\ resp'.op = "upload_schema"
        /\ resp'.model_name \in DOMAIN latest
        /\ latest[resp'.model_name] = resp'.item)
       => (/\ schemas' = schemas
           /\ \A name \in DOMAIN schemas, item \in Payloads :
                  validate_data(schemas'[name], item)
                      = validate_data(schemas[name], item))]_vars

\* The same document uploaded again under a name that holds records.
C13_Witness ==
    /\ repeated
    /\ schemas[resp.model_name] = resp.item
    /\ KeysOf(data, resp.model_name) # {}

(***************************************************************************)
(* C14  Reads and deletes bypass the schema.  get_item answers 200 with    *)
(* the stored value exactly when the (model, id) is stored and 404         *)
(* otherwise, and changes neither the registry nor the store; delete_item  *)
(* answers 200 exactly when the (model, id) is stored and 404 otherwise,   *)
(* removes that pair and nothing else, and leaves the registry alone.      *)
(* Neither outcome depends on the registry.                                *)
(***************************************************************************)
C14_ReadsDeletesBypassSchema ==
    [][LET m == resp'.model_name
           id == resp'.item_id
       IN  /\ resp'.op = "get_item"
              => /\ IF Stored(data, m, id)
                    THEN resp'.status = StatusOk /\ resp'.data = data[m][id]
                    ELSE IsNotFound(resp')
                 /\ schemas' = schemas
                 /\ data' = data
           /\ resp'.op = "delete_item"
              => /\ IF Stored(data, m, id)
                    THEN resp'.status = StatusOk
                    ELSE IsNotFound(resp')
                 /\ schemas' = schemas
                 /\ DOMAIN data' = DOMAIN data
                 /\ \A n \in DOMAIN data :
                        /\ DOMAIN data'[n]
                               = DOMAIN data[n] \ (IF n = m THEN {id} ELSE {})
                        /\ \A k \in DOMAIN data'[n] : data'[n][k] = data[n][k]]_vars

\* A record that the model's current schema rejects is read.
C14_Witness ==
    /\ resp.op = "get_item"
    /\ resp.status = StatusOk
    /\ ~validate_data(schemas[resp.model_name], resp.data).ok
    /\ Cardinality(KeysOf(data, resp.model_name)) >= 2

(***************************************************************************)
(* The claims about requests running in parallel (SpecC, FairSpecC).       *)
(***************************************************************************)
Done(w) == pc[w] = "done"

\* w and v are two workers creating records of one model, both payloads
\* valid for the model's schema.
TwoValidCreates(w, v) ==
    /\ w # v
    /\ req[w].op = "create_item"
    /\ req[v].op = "create_item"
    /\ req[w].model_name = req[v].model_name
    /\ ValidIn(schemas, req[w])
    /\ ValidIn(schemas, req[v])

\* w's create answered 201 and its record is stored under the id returned.
CreatedAndStored(w) ==
    /\ answer[w].status = StatusCreated
    /\ Stored(data, req[w].model_name, answer[w].id)
    /\ data[req[w].model_name][answer[w].id] = req[w].item

\* C15: two create_item requests on one model with valid payloads, run in
\* parallel in any interleaving, both answer 201 with two distinct ids, and
\* afterwards the store holds both records, each under its own id.
C15_ConcurrentCreates ==
    \A w, v \in Workers :
        (TwoValidCreates(w, v) /\ Done(w) /\ Done(v))
            => /\ CreatedAndStored(w)
               /\ CreatedAndStored(v)
               /\ answer[w].id # answer[v].id

\* Two parallel creates of different records have both returned.
C15_Witness ==
    \E w, v \in Workers :
        /\ TwoValidCreates(w, v)
        /\ Done(w)
        /\ Done(v)
        /\ req[w].item # req[v].item
        /\ answer[w].status = StatusCreated
        /\ answer[v].status = StatusCreated

\* The two collections of AppState.
Collections == {"schemas", "data"}

\* w is at a place where its handler reads the collection: schemas.get and
\* the validation against the schema borrowed from the map; the lookups of
\* get_item.
Reading(w, collection) ==
    IF collection = "schemas"
    THEN pc[w] \in {"lookup", "validate"}
    ELSE pc[w] = "read"

\* w is at a place where its handler changes the collection.
Writing(w, collection) ==
    IF collection = "schemas"
    THEN pc[w] = "insert_schema"
    ELSE pc[w] \in {"insert", "replace", "remove"}

\* w stands before the lock() of the collection.
WaitingFor(w, collection) ==
    IF collection = "schemas"
    THEN /\ pc[w] = "start"
         /\ req[w].op \in {"upload_schema", "create_item", "update_item"}
    ELSE \/ pc[w] = "lock_data"
         \/ pc[w] = "start" /\ req[w].op \in {"get_item", "delete_item"}

\* C16: while a request changes the schema registry (upload_schema) or the
\* record store (create_item, update_item, delete_item), no other request
\* reads or changes the same collection.
C16_WriterExclusion ==
    \A w, v \in Workers : \A collection \in Collections :
        (w # v /\ Writing(w, collection))
            => ~(Reading(v, collection) \/ Writing(v, collection))

\* A request is changing a collection while another request, which reads
\* or changes the same collection next, stands before its lock.
C16_Witness ==
    \E w, v \in Workers : \E collection \in Collections :
        /\ w # v
        /\ Writing(w, collection)
        /\ WaitingFor(v, collection)

\* w stands before the lock() it takes in order to read the collection: a
\* get_item before the store, a create_item or update_item before the
\* registry.
WaitingToRead(w, collection) ==
    /\ pc[w] = "start"
    /\ IF collection = "schemas"
       THEN req[w].op \in {"create_item", "update_item"}
       ELSE req[w].op = "get_item"

\* The step by which w gets its read access to the collection.
TakesReadAccess(w, collection) ==
    IF collection = "schemas" THEN write_lock_schemas(w) ELSE get_item_lock(w)

\* C17: reads of one collection proceed together: while a request reads a
\* collection, another request that comes to read the same collection gets
\* its access too, so that both read at the same time.
C17_ReadsProceedTogether ==
    \A w, v \in Workers : \A collection \in Collections :
        (w # v /\ Reading(w, collection) /\ WaitingToRead(v, collection))
            => ENABLED TakesReadAccess(v, collection)

\* What the code does instead: no two requests ever read one collection at
\* the same time.
C17_ReadersExcluded ==
    \A w, v \in Workers : \A collection \in Collections :
        (w # v /\ Reading(w, collection)) => ~Reading(v, collection)

\* A request reads a collection and another has come to read the same one.
C17_Witness ==
    \E w, v \in Workers : \E collection \in Collections :
        /\ w # v
        /\ Reading(w, collection)
        /\ WaitingToRead(v, collection)

\* w holds the guard of the collection's Mutex.
Holds(w, collection) ==
    IF collection = "schemas" THEN schemas_guard = w ELSE data_guard = w

\* C18: in create_item and update_item the compile/validate step runs while
\* the request holds no lock at all, and no request holds both locks at
\* once.
C18_ValidationHoldsNoLock ==
    \A w \in Workers :
        /\ pc[w] = "validate" => \A collection \in Collections :
                                     ~Holds(w, collection)
        /\ ~(Holds(w, "schemas") /\ Holds(w, "data"))

\* What the code does: validation runs under the registry's lock, and
\* outside the lock of the record store.
C18_ValidationUnderSchemasLock ==
    \A w \in Workers :
        pc[w] = "validate" => Holds(w, "schemas") /\ ~Holds(w, "data")

\* A request has validated its payload and is about to insert or replace.
C18_Witness ==
    \E w \in Workers : pc[w] \in {"insert", "replace"}

\* w has got the collection's lock in this step.
Acquires(w, collection) ==
    IF collection = "schemas"
    THEN schemas_guard # w /\ schemas_guard' = w
    ELSE data_guard # w /\ data_guard' = w

\* Locks are taken in one order: the registry's lock is never taken by a
\* request holding the store's lock, so a request holding both had the
\* registry's lock first.
LockOrder ==
    \A w \in Workers :
        /\ Acquires(w, "schemas") => ~Holds(w, "data")
        /\ (Acquires(w, "data") /\ schemas_guard' = w) => Holds(w, "schemas")

\* No request holding the store's lock waits for the registry's lock.
NoWaitForSchemasHoldingData ==
    \A w \in Workers : WaitingFor(w, "schemas") => ~Holds(w, "data")

\* Every request has been answered.
AllDone == \A w \in Workers : Done(w) /\ answer[w] # NoResponse

\* C19: with the worker threads scheduled fairly, every request of any set
\* of parallel upload_schema, create_item, get_item, update_item and
\* delete_item requests is answered in the end; no state short of that is a
\* deadlock; the registry's lock is taken before the store's lock, and
\* nobody waits for the registry's lock while holding the store's.
C19_NoOperationBlocks ==
    /\ \A w \in Workers : <>(Done(w) /\ answer[w] # NoResponse)
    /\ [](AllDone \/ ENABLED NextC)
    /\ [][LockOrder]_vars
    /\ []NoWaitForSchemasHoldingData

\* A request holds both locks while another waits for one of them.
C19_Witness ==
    \E w, v \in Workers : \E collection \in Collections :
        /\ w # v
        /\ Holds(w, "schemas")
        /\ Holds(w, "data")
        /\ WaitingFor(v, collection)

\* w has looked up its schema and has not returned yet.
PastLookup(w) == pc[w] \in {"validate", "lock_data", "insert", "replace"}

\* From w's lookup to its return the registry holds, under w's model, the
\* schema w has looked up.
SchemaStable ==
    \A w \in Workers :
        PastLookup(w) => /\ req[w].model_name \in DOMAIN schemas
                         /\ schemas[req[w].model_name] = the_schema[w]

\* The step in which w inserts or replaces a record.
WritesRecord(w) ==
    /\ pc[w] \in {"insert", "replace"}
    /\ answer'[w].status \in {StatusOk, StatusCreated}

\* C20: in every interleaving of create_item and update_item with
\* upload_schema requests for the same model, the payload a request inserts
\* or replaces is valid, at that step, for the schema then registered under
\* the model; no upload takes effect between the request's lookup and
\* validation and its write.
C20_ValidateAndWriteAtomic ==
    /\ []SchemaStable
    /\ [][\A w \in Workers :
              WritesRecord(w) => /\ ValidIn(schemas, req[w])
                                 /\ ValidIn(schemas', req[w])]_vars

\* A request is about to write its record while an upload for the same
\* model, of a schema that rejects the record, waits for the lock.
C20_Witness ==
    \E w, v \in Workers :
        /\ pc[w] \in {"insert", "replace"}
        /\ req[v].op = "upload_schema"
        /\ pc[v] = "start"
        /\ req[v].model_name = req[w].model_name
        /\ ~validate_data(req[v].item, req[w].item).ok

====
